---- MODULE Spec2Model ----
(***************************************************************************)
(* css-brewery: the HSLA colour value object (createHSLA / createHsla),    *)
(* its parser fromStringHSLA, and the border, shadow and gradient objects  *)
(* that hold colours.                                                      *)
(*                                                                         *)
(* Numbers.  h, s and l are integers.  Alpha is kept in hundredths: the    *)
(* JavaScript number a is the integer a * AlphaScale, so 1 is 100 and 0.5  *)
(* is 50.  toRgb is evaluated in exact fixed-point arithmetic: p and q in  *)
(* units of 1/(PctScale * PctScale), a phase t in units of 1/HueScale and  *)
(* a channel in units of 1/ChannelScale; Math.round is floor(x + 1/2).     *)
(* The code computes in IEEE doubles, whose rounding error is far below    *)
(* one unit of these scales: it decides a result only where the exact      *)
(* value lies on a threshold, a channel halfway between two integers or a  *)
(* luminance of exactly 0.5.  There the model allows both outcomes.  The   *)
(* achromatic l / 100 * 255 is exact at its five halfway values (l = 10,   *)
(* 30, 50, 70, 90) and rounds up.  The alpha inputs are chosen so that     *)
(* every sum of alphas is exact in doubles as well.  The one NaN of the    *)
(* program, the alpha parsed from an empty field, is the value NaN.        *)
(* Strings are sequences of one-character strings.                         *)
(*                                                                         *)
(* State.  heap is the sequence of instances created so far: under Spec    *)
(* and SpecParse colour instances, each the four closure variables h, s,   *)
(* l, a of one createHSLA call; under SpecBorder, SpecShadow and           *)
(* SpecGradient the borders, shadows and gradients created, each with the  *)
(* closure variables of its constructor call.  ret is the last call: its   *)
(* name, the instance it was called on, its argument and what it returned  *)
(* (an instance's index in heap, 0 for null, or a value).                  *)
(***************************************************************************)
EXTENDS Integers, Sequences, FiniteSets, TLC

VARIABLES heap, ret

vars == <<heap, ret>>

\* The most instances a run creates.
MaxObjs == 3

\* Fixed-point scale of alpha (hundredths).
AlphaScale == 100

\* l / 100 and s / 100
PctScale == 100

\* h / 360, and the period of h % 360
HueScale == 360

\* Math.round(r * 255)
RgbMax == 255

\* One channel before rounding, in units of 1 / ChannelScale.
ChannelScale == PctScale * PctScale * 60

(***************************************************************************)
(* JavaScript primitives                                                   *)
(***************************************************************************)

\* Math.round(n / d) for d > 0, truncating instead of rounding.
MathFloor(n, d) == n \div d

\* Math.round(n / d) for d > 0: the nearest integer, a half rounded up.
MathRound(n, d) == (2 * n + d) \div (2 * d)

\* Math.round of a double whose exact value is n / d, d > 0, computed with
\* rounding error: at an exact half the error decides the side.
MathRoundNear(n, d) ==
  IF (2 * n) % (2 * d) = d THEN {n \div d, n \div d + 1} ELSE {MathRound(n, d)}

\* The number NaN, which parseFloat returns for a string that starts with no
\* number.  It stands in the place of an alpha (hundredths); no input below
\* and no sum of inputs comes near this integer.
NaN == 0 - 1000000

\* Math.min and Math.max: NaN if an argument is NaN.
MathMin(a, b) == IF a = NaN \/ b = NaN THEN NaN ELSE IF a < b THEN a ELSE b

MathMax(a, b) == IF a = NaN \/ b = NaN THEN NaN ELSE IF a > b THEN a ELSE b

\* a % m of JavaScript: the remainder has the sign of the dividend.
Rem(a, m) == IF a >= 0 THEN a % m ELSE 0 - ((0 - a) % m)

\* partial[k] ?? dflt, and a destructuring default: an absent field gives dflt.
Get(partial, k, dflt) == IF k \in DOMAIN partial THEN partial[k] ELSE dflt

Digit(d) == <<"0", "1", "2", "3", "4", "5", "6", "7", "8", "9">>[d + 1]

RECURSIVE NatStr(_)
NatStr(n) == IF n < 10 THEN <<Digit(n)>> ELSE NatStr(n \div 10) \o <<Digit(n % 10)>>

\* `${n}` of an integer.
IntStr(n) == IF n < 0 THEN <<"-">> \o NatStr(0 - n) ELSE NatStr(n)

\* `${a}` for a, in hundredths, with at most two decimals; "NaN" for NaN.
AlphaStr(a) ==
  IF a = NaN THEN <<"N", "a", "N">> ELSE
  LET m == IF a < 0 THEN 0 - a ELSE a
      f == m % AlphaScale
      frac == IF f = 0 THEN <<>>
              ELSE IF f % 10 = 0 THEN <<".", Digit(f \div 10)>>
              ELSE <<".", Digit(f \div 10), Digit(f % 10)>>
  IN  (IF a < 0 THEN <<"-">> ELSE <<>>) \o NatStr(m \div AlphaScale) \o frac

(***************************************************************************)
(* createHSLA and the methods of the object it returns, as functions of    *)
(* the instance x = [h, s, l, a]                                           *)
(***************************************************************************)

createHSLA(args) ==
  [h |-> Rem(Get(args, "h", 0), HueScale),
   s |-> MathMin(100, MathMax(0, Get(args, "s", 0))),
   l |-> MathMin(100, MathMax(0, Get(args, "l", 0))),
   a |-> MathMin(AlphaScale, MathMax(0, Get(args, "a", AlphaScale)))]

value(x) == [h |-> x.h, s |-> x.s, l |-> x.l, a |-> x.a]

set(x, newValues) ==
  createHSLA([h |-> Get(newValues, "h", x.h),
              s |-> Get(newValues, "s", x.s),
              l |-> Get(newValues, "l", x.l),
              a |-> Get(newValues, "a", x.a)])

\* An adjust that clamps the hue like the other channels instead of wrapping.
adjustHueClamped(x, adjustments) ==
  createHSLA([h |-> MathMin(HueScale - 1, MathMax(0, x.h + Get(adjustments, "h", 0))),
              s |-> MathMin(100, MathMax(0, x.s + Get(adjustments, "s", 0))),
              l |-> MathMin(100, MathMax(0, x.l + Get(adjustments, "l", 0))),
              a |-> MathMin(AlphaScale,
                            MathMax(0, x.a + Get(adjustments, "a", 0)))])

adjust(x, adjustments) ==
  createHSLA([h |-> Rem(x.h + Get(adjustments, "h", 0), HueScale),
              s |-> MathMin(100, MathMax(0, x.s + Get(adjustments, "s", 0))),
              l |-> MathMin(100, MathMax(0, x.l + Get(adjustments, "l", 0))),
              a |-> MathMin(AlphaScale,
                            MathMax(0, x.a + Get(adjustments, "a", 0)))])

\* hue2rgb without the `if (t > 1) t -= 1` correction.
hue2rgbNoWrap(p, q, t) ==
  LET t2 == IF t < 0 THEN t + HueScale ELSE t
  IN  IF 6 * t2 < HueScale THEN 60 * p + (q - p) * t2
      ELSE IF 2 * t2 < HueScale THEN 60 * q
      ELSE IF 3 * t2 < 2 * HueScale THEN 60 * p + (q - p) * (240 - t2)
      ELSE 60 * p

\* The correction without its first statement, `if (t < 0) t += 1`.
correctDownOnly(t) == IF t > HueScale THEN t - HueScale ELSE t

\* `if (t < 0) t += 1; if (t > 1) t -= 1`: the phase t, in 1/360, after the
\* two statements that open hue2rgb.
correct(t) ==
  LET t1 == IF t < 0 THEN t + HueScale ELSE t
  IN  IF t1 > HueScale THEN t1 - HueScale ELSE t1

\* hue2rgb(p, q, t): p, q in 1/10000, t in 1/360, the result in 1/ChannelScale.
hue2rgb(p, q, t) ==
  LET t2 == correct(t)
  IN  IF 6 * t2 < HueScale THEN 60 * p + (q - p) * t2
      ELSE IF 2 * t2 < HueScale THEN 60 * q
      ELSE IF 3 * t2 < 2 * HueScale THEN 60 * p + (q - p) * (240 - t2)
      ELSE 60 * p

\* The triples toRgb() can return.
toRgb(x) ==
  IF x.s = 0
  THEN LET c == MathRound(x.l * RgbMax, PctScale) IN {<<c, c, c>>}
  ELSE LET q == IF 2 * x.l < PctScale
                THEN x.l * (PctScale + x.s)
                ELSE PctScale * x.l + PctScale * x.s - x.l * x.s
           p == 2 * PctScale * x.l - q
       IN  MathRoundNear(hue2rgb(p, q, x.h + 120) * RgbMax, ChannelScale)
             \X MathRoundNear(hue2rgb(p, q, x.h) * RgbMax, ChannelScale)
             \X MathRoundNear(hue2rgb(p, q, x.h - 120) * RgbMax, ChannelScale)

\* luminance with the weights of red and green exchanged.
luminanceSwapped(rgb) == 587 * rgb[1] + 299 * rgb[2] + 114 * rgb[3]

\* (0.299 * r) / 255 + (0.587 * g) / 255 + (0.114 * b) / 255, in 1/255000.
luminance(rgb) == 299 * rgb[1] + 587 * rgb[2] + 114 * rgb[3]

\* The values of `luminance < 0.5`: at exactly 0.5 the doubles' error decides.
isDark(rgb) ==
  IF 2 * luminance(rgb) = RgbMax * 1000 THEN {TRUE, FALSE}
  ELSE {2 * luminance(rgb) < RgbMax * 1000}

\* A shift that moves the hue, as the readme describes it.
shiftHue(x, adjustment) ==
  UNION { { [rgb |-> rgb, dark |-> dark,
             out |-> IF dark THEN adjust(x, [h |-> adjustment])
                     ELSE adjust(x, [h |-> 0 - adjustment])] : dark \in isDark(rgb) }
          : rgb \in toRgb(x) }

\* shift with its two branches exchanged.
shiftSwapped(x, adjustment) ==
  UNION { { [rgb |-> rgb, dark |-> dark,
             out |-> IF dark THEN adjust(x, [l |-> 0 - adjustment])
                     ELSE adjust(x, [l |-> adjustment])] : dark \in isDark(rgb) }
          : rgb \in toRgb(x) }

\* The runs of shift: the triple it read, its test and the value it returns.
shift(x, adjustment) ==
  UNION { { [rgb |-> rgb, dark |-> dark,
             out |-> IF dark THEN adjust(x, [l |-> adjustment])
                     ELSE adjust(x, [l |-> 0 - adjustment])] : dark \in isDark(rgb) }
          : rgb \in toRgb(x) }

\* A toString that leaves out the percent signs.
toStringBare(x) ==
  <<"h", "s", "l", "a", "(">> \o IntStr(x.h) \o <<",", " ">>
    \o IntStr(x.s) \o <<",", " ">>
    \o IntStr(x.l) \o <<",", " ">>
    \o AlphaStr(x.a) \o <<")">>

\* `hsla(${h}, ${s}%, ${l}%, ${a})`
toString(x) ==
  <<"h", "s", "l", "a", "(">> \o IntStr(x.h) \o <<",", " ">>
    \o IntStr(x.s) \o <<"%", ",", " ">>
    \o IntStr(x.l) \o <<"%", ",", " ">>
    \o AlphaStr(x.a) \o <<")">>

(***************************************************************************)
(* Inputs                                                                  *)
(***************************************************************************)

NoArgs == [k \in {} |-> 0]

CreateArgs ==
  { NoArgs,
    [h |-> 60, s |-> 90, l |-> 50, a |-> 100],
    [h |-> 200, s |-> 100, l |-> 50, a |-> 100],
    [h |-> 300, s |-> 75, l |-> 50, a |-> 80],
    [h |-> -660, s |-> 150, l |-> 50, a |-> 200],
    [h |-> 720, s |-> 150, l |-> -20, a |-> -100],
    [h |-> -30, l |-> 10] }

SetArgs ==
  { [h |-> 0, a |-> 0],
    [h |-> -30, s |-> 150],
    [s |-> 0, l |-> 30] }

AdjustArgs ==
  { [s |-> -40, l |-> 10],
    [h |-> -90],
    [h |-> 400, a |-> 50] }

ShiftArgs == { 60, -10 }

(***************************************************************************)
(* The calls                                                               *)
(***************************************************************************)

Init ==
  /\ heap = <<>>
  /\ ret = [op |-> "none", self |-> 0, arg |-> NoArgs, out |-> 0]

\* createHSLA(args): a new instance.
Construct(args) ==
  /\ Len(heap) < MaxObjs
  /\ heap' = Append(heap, createHSLA(args))
  /\ ret' = [op |-> "createHSLA", self |-> 0, arg |-> args, out |-> Len(heap) + 1]

\* A set that assigned the closure variables and returned `this`.
SetInPlace(i, newValues) ==
  /\ Len(heap) < MaxObjs
  /\ heap' = [heap EXCEPT ![i] = set(heap[i], newValues)]
  /\ ret' = [op |-> "set", self |-> i, arg |-> newValues, out |-> i]

\* heap[i].set(newValues)
Set(i, newValues) ==
  /\ Len(heap) < MaxObjs
  /\ heap' = Append(heap, set(heap[i], newValues))
  /\ ret' = [op |-> "set", self |-> i, arg |-> newValues, out |-> Len(heap) + 1]

\* heap[i].adjust(adjustments)
Adjust(i, adjustments) ==
  /\ Len(heap) < MaxObjs
  /\ heap' = Append(heap, adjust(heap[i], adjustments))
  /\ ret' = [op |-> "adjust", self |-> i, arg |-> adjustments,
             out |-> Len(heap) + 1]

\* heap[i].shift(adjustment); ret keeps the triple and the test of the run.
Shift(i, adjustment) ==
  /\ Len(heap) < MaxObjs
  /\ \E run \in shift(heap[i], adjustment) :
       /\ heap' = Append(heap, run.out)
       /\ ret' = [op |-> "shift", self |-> i, arg |-> adjustment,
                  out |-> Len(heap) + 1, rgb |-> run.rgb, dark |-> run.dark]

\* heap[i].toRgb()
ToRgb(i) ==
  /\ heap' = heap
  /\ \E rgb \in toRgb(heap[i]) :
       ret' = [op |-> "toRgb", self |-> i, arg |-> NoArgs, out |-> rgb]

\* heap[i].toString()
Stringify(i) ==
  /\ heap' = heap
  /\ ret' = [op |-> "toString", self |-> i, arg |-> NoArgs,
             out |-> toString(heap[i])]

\* heap[i].value
Value(i) ==
  /\ heap' = heap
  /\ ret' = [op |-> "value", self |-> i, arg |-> NoArgs, out |-> value(heap[i])]

Next ==
  \/ \E args \in CreateArgs : Construct(args)
  \/ \E i \in 1..Len(heap), newValues \in SetArgs : Set(i, newValues)
  \/ \E i \in 1..Len(heap), adjustments \in AdjustArgs : Adjust(i, adjustments)
  \/ \E i \in 1..Len(heap), adjustment \in ShiftArgs : Shift(i, adjustment)
  \/ \E i \in 1..Len(heap) : ToRgb(i)
  \/ \E i \in 1..Len(heap) : Stringify(i)
  \/ \E i \in 1..Len(heap) : Value(i)

Spec == Init /\ [][Next]_vars

(***************************************************************************)
(* fromStringHSLA                                                          *)
(***************************************************************************)

\* \d and \s of the regular expression
Digits == {"0", "1", "2", "3", "4", "5", "6", "7", "8", "9"}

WhiteSpace == {" ", "\t", "\n", "\r"}

\* The character of str at index i; "" past either end.
At(str, i) == IF i \in 1..Len(str) THEN str[i] ELSE ""

\* Whether str has the characters lit from index i on.
Lit(str, i, lit) ==
  /\ i + Len(lit) - 1 <= Len(str)
  /\ SubSeq(str, i, i + Len(lit) - 1) = lit

\* A greedy \d* or \s* from index i: the index after the longest run of
\* characters of class.  What follows such a run in the expression never
\* starts with a character of class, so giving characters back cannot help.
RECURSIVE Skip(_, _, _)
Skip(str, i, class) ==
  IF At(str, i) \in class THEN Skip(str, i + 1, class) ELSE i

\* /hsla\((\d+),\s*(\d+)%,\s*(\d+)%,\s*(\d*(?:\.\d+)?)\)/ tried at index p:
\* whether it matches there, its four groups and the index of the ")".
matchAt(str, p) ==
  LET h0 == p + 5
      h1 == Skip(str, h0, Digits)
      s0 == Skip(str, h1 + 1, WhiteSpace)
      s1 == Skip(str, s0, Digits)
      l0 == Skip(str, s1 + 2, WhiteSpace)
      l1 == Skip(str, l0, Digits)
      a0 == Skip(str, l1 + 2, WhiteSpace)
      a1 == Skip(str, a0, Digits)
      f1 == Skip(str, a1 + 1, Digits)
      a2 == IF At(str, a1) = "." /\ f1 > a1 + 1 THEN f1 ELSE a1
      ok == /\ Lit(str, p, <<"h", "s", "l", "a", "(">>)
            /\ h1 > h0 /\ Lit(str, h1, <<",">>)
            /\ s1 > s0 /\ Lit(str, s1, <<"%", ",">>)
            /\ l1 > l0 /\ Lit(str, l1, <<"%", ",">>)
            /\ At(str, a2) = ")"
  IN  IF ok
      THEN [ok |-> TRUE, last |-> a2,
            groups |-> << SubSeq(str, h0, h1 - 1), SubSeq(str, s0, s1 - 1),
                          SubSeq(str, l0, l1 - 1), SubSeq(str, a0, a2 - 1) >>]
      ELSE [ok |-> FALSE]

\* hslaString.match(regex): the match at the leftmost index that has one.
match(str) ==
  LET starts == { p \in 1..Len(str) : matchAt(str, p).ok }
  IN  IF starts = {} THEN [ok |-> FALSE]
      ELSE matchAt(str, CHOOSE p \in starts : \A r \in starts : p <= r)

DigitVal(c) == CHOOSE d \in 0..9 : Digit(d) = c

RECURSIVE DigitsVal(_)
DigitsVal(str) ==
  IF str = <<>> THEN 0
  ELSE 10 * DigitsVal(SubSeq(str, 1, Len(str) - 1)) + DigitVal(str[Len(str)])

\* parseInt(str, 10) for a string of digits.
parseInt(str) == IF str = <<>> THEN NaN ELSE DigitsVal(str)

\* parseFloat(str) for digits with an optional fraction of at most two
\* decimals, in hundredths: the empty string gives NaN.
parseFloat(str) ==
  LET dot == Skip(str, 1, Digits)
      frac == SubSeq(str \o <<"0", "0">>, dot + 1, dot + 2)
  IN  IF str = <<>> THEN NaN
      ELSE IF dot > Len(str) THEN DigitsVal(str) * AlphaScale
      ELSE DigitsVal(SubSeq(str, 1, dot - 1)) * AlphaScale + DigitsVal(frac)

null == [null |-> TRUE]

fromStringHSLA(hslaString) ==
  LET m == match(hslaString)
  IN  IF ~m.ok THEN null
      ELSE createHSLA([h |-> parseInt(m.groups[1]),
                       s |-> parseInt(m.groups[2]),
                       l |-> parseInt(m.groups[3]),
                       a |-> parseFloat(m.groups[4])])

ParseInputs ==
  {
    \* 'hsla(400, 150%, 50%, 2)'
    <<"h", "s", "l", "a", "(", "4", "0", "0", ",", " ", "1", "5", "0", "%",
      ",", " ", "5", "0", "%", ",", " ", "2", ")">>,
    \* 'hsla(120,100%,50%,0.5)'
    <<"h", "s", "l", "a", "(", "1", "2", "0", ",", "1", "0", "0", "%", ",",
      "5", "0", "%", ",", "0", ".", "5", ")">>,
    \* 'hsla(120,<tab>100%,  50%, 0.5)'
    <<"h", "s", "l", "a", "(", "1", "2", "0", ",", "\t", "1", "0", "0",
      "%", ",", " ", " ", "5", "0", "%", ",", " ", "0", ".", "5", ")">>,
    \* 'hsla(10, 20%, 30%, )'
    <<"h", "s", "l", "a", "(", "1", "0", ",", " ", "2", "0", "%", ",", " ",
      "3", "0", "%", ",", " ", ")">>,
    \* 'color: hsla(10, 20%, 30%, 1);'
    <<"c", "o", "l", "o", "r", ":", " ", "h", "s", "l", "a", "(", "1", "0",
      ",", " ", "2", "0", "%", ",", " ", "3", "0", "%", ",", " ", "1", ")",
      ";">>,
    \* 'hsla(10, 20%, 30%, 1.)'
    <<"h", "s", "l", "a", "(", "1", "0", ",", " ", "2", "0", "%", ",", " ",
      "3", "0", "%", ",", " ", "1", ".", ")">>,
    \* 'hsla(10, 20, 30, 1)'
    <<"h", "s", "l", "a", "(", "1", "0", ",", " ", "2", "0", ",", " ", "3",
      "0", ",", " ", "1", ")">>,
    \* 'hsla(10, 20%, 30%, 1'
    <<"h", "s", "l", "a", "(", "1", "0", ",", " ", "2", "0", "%", ",", " ",
      "3", "0", "%", ",", " ", "1">>,
    \* 'HSLA(10, 20%, 30%, 1)'
    <<"H", "S", "L", "A", "(", "1", "0", ",", " ", "2", "0", "%", ",", " ",
      "3", "0", "%", ",", " ", "1", ")">>,
    \* 'rgb(1, 2, 3)'
    <<"r", "g", "b", "(", "1", ",", " ", "2", ",", " ", "3", ")">>,
    \* ''
    <<>> }

\* The instances created to be rendered and parsed back.
ParseCreateArgs ==
  { [h |-> 300, s |-> 75, l |-> 50, a |-> 80],
    [h |-> -660, s |-> 150, l |-> 50, a |-> 200],
    [h |-> -30, l |-> 10] }

\* fromStringHSLA(str): a new instance, or null (out = 0).
FromString(str) ==
  LET x == fromStringHSLA(str)
  IN  IF x = null
      THEN /\ heap' = heap
           /\ ret' = [op |-> "fromStringHSLA", self |-> 0, arg |-> str, out |-> 0]
      ELSE /\ Len(heap) < MaxObjs
           /\ heap' = Append(heap, x)
           /\ ret' = [op |-> "fromStringHSLA", self |-> 0, arg |-> str,
                      out |-> Len(heap) + 1]

\* Colours are created, rendered and parsed: from the strings of ParseInputs
\* and from what toString returns for an instance.
NextParse ==
  \/ \E args \in ParseCreateArgs : Construct(args)
  \/ \E i \in 1..Len(heap) : Stringify(i)
  \/ \E str \in ParseInputs \cup { toString(heap[i]) : i \in 1..Len(heap) } :
       FromString(str)

SpecParse == Init /\ [][NextParse]_vars

(***************************************************************************)
(* createBorder and the methods of the object it returns, as functions of  *)
(* the instance b = [width, style, color]; color is a colour instance,     *)
(* which never changes                                                     *)
(***************************************************************************)

Solid == <<"s", "o", "l", "i", "d">>

Dashed == <<"d", "a", "s", "h", "e", "d">>

Dotted == <<"d", "o", "t", "t", "e", "d">>

\* createHsla({ h: 0, s: 0, l: 0, a: 1 })
Black == createHSLA([h |-> 0, s |-> 0, l |-> 0, a |-> AlphaScale])

\* v ? yes : no for an optional number v = partial[k]: an absent field
\* (undefined) and the number 0 are falsy.  An object is truthy.
Truthy(partial, k) == k \in DOMAIN partial /\ partial[k] # 0

createBorder(args) ==
  [width |-> Get(args, "width", 1),
   style |-> Get(args, "style", Solid),
   color |-> Get(args, "color", Black)]

borderSet(b, newValues) ==
  createBorder([width |-> Get(newValues, "width", b.width),
                style |-> Get(newValues, "style", b.style),
                color |-> Get(newValues, "color", b.color)])

borderAdjust(b, adjustments) ==
  createBorder([width |-> IF Truthy(adjustments, "width")
                          THEN b.width + adjustments.width ELSE b.width,
                style |-> Get(adjustments, "style", b.style),
                color |-> IF "color" \in DOMAIN adjustments
                          THEN adjust(b.color, value(adjustments.color))
                          ELSE b.color])

\* `${width}px ${style} ${color.toString()}`
borderToString(b) ==
  IntStr(b.width) \o <<"p", "x", " ">> \o b.style \o <<" ">>
    \o toString(b.color)

BorderCreateArgs ==
  { NoArgs,
    [width |-> 2, style |-> Dashed],
    [width |-> 1, style |-> Solid],
    [width |-> 5, style |-> Solid,
     color |-> createHSLA([h |-> 240, s |-> 100, l |-> 50, a |-> 100])] }

BorderSetArgs ==
  { [width |-> 4, style |-> Dotted],
    [color |-> createHSLA([h |-> 120, s |-> 75, l |-> 50, a |-> 80])] }

BorderAdjustArgs ==
  { [color |-> createHSLA([h |-> 120, s |-> 75, l |-> 50, a |-> 80])],
    [color |-> createHSLA([h |-> 240, s |-> 100, l |-> 50, a |-> 100])],
    [width |-> 2],
    [width |-> 0, style |-> Dotted] }

\* createBorder(args): a new border.
ConstructBorder(args) ==
  /\ Len(heap) < MaxObjs
  /\ heap' = Append(heap, createBorder(args))
  /\ ret' = [op |-> "createBorder", self |-> 0, arg |-> args,
             out |-> Len(heap) + 1]

\* heap[i].set(newValues)
SetBorder(i, newValues) ==
  /\ Len(heap) < MaxObjs
  /\ heap' = Append(heap, borderSet(heap[i], newValues))
  /\ ret' = [op |-> "set", self |-> i, arg |-> newValues, out |-> Len(heap) + 1]

\* heap[i].adjust(adjustments)
AdjustBorder(i, adjustments) ==
  /\ Len(heap) < MaxObjs
  /\ heap' = Append(heap, borderAdjust(heap[i], adjustments))
  /\ ret' = [op |-> "adjust", self |-> i, arg |-> adjustments,
             out |-> Len(heap) + 1]

\* heap[i].toString()
StringifyBorder(i) ==
  /\ heap' = heap
  /\ ret' = [op |-> "toString", self |-> i, arg |-> NoArgs,
             out |-> borderToString(heap[i])]

\* The heap holds borders only.
NextBorder ==
  \/ \E args \in BorderCreateArgs : ConstructBorder(args)
  \/ \E i \in 1..Len(heap), newValues \in BorderSetArgs : SetBorder(i, newValues)
  \/ \E i \in 1..Len(heap), adjustments \in BorderAdjustArgs :
       AdjustBorder(i, adjustments)
  \/ \E i \in 1..Len(heap) : StringifyBorder(i)

SpecBorder == Init /\ [][NextBorder]_vars

(***************************************************************************)
(* createShadow and the methods of the object it returns, as functions of  *)
(* the instance sh = [x, y, blur, spread, color, inset]                    *)
(***************************************************************************)

\* x ? v + x : v for an optional number x = partial[k]
Plus(v, partial, k) == IF Truthy(partial, k) THEN v + partial[k] ELSE v

createShadow(args) ==
  [x |-> Get(args, "x", 0),
   y |-> Get(args, "y", 0),
   blur |-> Get(args, "blur", 0),
   spread |-> Get(args, "spread", 0),
   color |-> Get(args, "color", createHSLA(NoArgs)),
   inset |-> Get(args, "inset", FALSE)]

shadowSet(sh, newValues) ==
  createShadow([x |-> Get(newValues, "x", sh.x),
                y |-> Get(newValues, "y", sh.y),
                blur |-> Get(newValues, "blur", sh.blur),
                spread |-> Get(newValues, "spread", sh.spread),
                color |-> Get(newValues, "color", sh.color),
                inset |-> Get(newValues, "inset", sh.inset)])

shadowAdjust(sh, adjustments) ==
  createShadow([x |-> Plus(sh.x, adjustments, "x"),
                y |-> Plus(sh.y, adjustments, "y"),
                blur |-> Plus(sh.blur, adjustments, "blur"),
                spread |-> Plus(sh.spread, adjustments, "spread"),
                color |-> IF "color" \in DOMAIN adjustments
                          THEN adjust(sh.color, value(adjustments.color))
                          ELSE sh.color,
                inset |-> Get(adjustments, "inset", sh.inset)])

\* `${n}px `
Px(n) == IntStr(n) \o <<"p", "x", " ">>

\* `${insetString}${x}px ${y}px ${blur}px ${spread}px ${color.toString()}`
shadowToString(sh) ==
  (IF sh.inset THEN <<"i", "n", "s", "e", "t", " ">> ELSE <<>>)
    \o Px(sh.x) \o Px(sh.y) \o Px(sh.blur) \o Px(sh.spread)
    \o toString(sh.color)

\* No argument gives a spread of 0: a spread of 0 is a spread not supplied.
ShadowCreateArgs ==
  { NoArgs,
    [x |-> 5, y |-> 5],
    [x |-> 2, y |-> 2, blur |-> 4,
     color |-> createHSLA([h |-> 0, s |-> 0, l |-> 0, a |-> 50])],
    [x |-> 1, y |-> 1, blur |-> 2, spread |-> 1, inset |-> TRUE,
     color |-> createHSLA([h |-> 210, s |-> 100, l |-> 50, a |-> 70])] }

ShadowSetArgs ==
  { [x |-> 0, y |-> 8, blur |-> 16,
     color |-> createHSLA([h |-> 0, s |-> 0, l |-> 0, a |-> 60])],
    [inset |-> TRUE] }

ShadowAdjustArgs ==
  { [blur |-> 10, color |-> createHSLA([h |-> 0, s |-> 0, l |-> 0, a |-> 50])],
    [x |-> -2, y |-> 0, spread |-> 3],
    [inset |-> FALSE] }

\* createShadow(args): a new shadow.
ConstructShadow(args) ==
  /\ Len(heap) < MaxObjs
  /\ heap' = Append(heap, createShadow(args))
  /\ ret' = [op |-> "createShadow", self |-> 0, arg |-> args,
             out |-> Len(heap) + 1]

\* heap[i].set(newValues)
SetShadow(i, newValues) ==
  /\ Len(heap) < MaxObjs
  /\ heap' = Append(heap, shadowSet(heap[i], newValues))
  /\ ret' = [op |-> "set", self |-> i, arg |-> newValues, out |-> Len(heap) + 1]

\* heap[i].adjust(adjustments)
AdjustShadow(i, adjustments) ==
  /\ Len(heap) < MaxObjs
  /\ heap' = Append(heap, shadowAdjust(heap[i], adjustments))
  /\ ret' = [op |-> "adjust", self |-> i, arg |-> adjustments,
             out |-> Len(heap) + 1]

\* heap[i].toString()
StringifyShadow(i) ==
  /\ heap' = heap
  /\ ret' = [op |-> "toString", self |-> i, arg |-> NoArgs,
             out |-> shadowToString(heap[i])]

\* The heap holds shadows only.
NextShadow ==
  \/ \E args \in ShadowCreateArgs : ConstructShadow(args)
  \/ \E i \in 1..Len(heap), newValues \in ShadowSetArgs : SetShadow(i, newValues)
  \/ \E i \in 1..Len(heap), adjustments \in ShadowAdjustArgs :
       AdjustShadow(i, adjustments)
  \/ \E i \in 1..Len(heap) : StringifyShadow(i)

SpecShadow == Init /\ [][NextShadow]_vars

(***************************************************************************)
(* createGradient and the methods of the object it returns, as functions   *)
(* of the instance g = [type, angle, repeating, sections]; a section is a  *)
(* record with a color and, optionally, a start and an end                 *)
(***************************************************************************)

Linear == <<"l", "i", "n", "e", "a", "r">>

Radial == <<"r", "a", "d", "i", "a", "l">>

Conic == <<"c", "o", "n", "i", "c">>

createGradient(args) ==
  [type |-> Get(args, "type", Linear),
   angle |-> Get(args, "angle", 0),
   repeating |-> Get(args, "repeating", FALSE),
   sections |-> Get(args, "sections", <<>>)]

gradientSet(g, newValues) ==
  createGradient([type |-> Get(newValues, "type", g.type),
                  angle |-> Get(newValues, "angle", g.angle),
                  repeating |-> Get(newValues, "repeating", g.repeating),
                  sections |-> Get(newValues, "sections", g.sections)])

gradientAdjust(g, adjustments) ==
  createGradient([type |-> Get(adjustments, "type", g.type),
                  angle |-> Get(adjustments, "angle", g.angle),
                  repeating |-> Get(adjustments, "repeating", g.repeating),
                  sections |-> Get(adjustments, "sections", g.sections)])

\* String.prototype.trim
RECURSIVE trim(_)
trim(str) ==
  IF str = <<>> THEN str
  ELSE IF Head(str) \in WhiteSpace THEN trim(Tail(str))
  ELSE IF str[Len(str)] \in WhiteSpace THEN trim(SubSeq(str, 1, Len(str) - 1))
  ELSE str

\* strs.join(sep)
RECURSIVE join(_, _)
join(strs, sep) ==
  IF strs = <<>> THEN <<>>
  ELSE IF Len(strs) = 1 THEN strs[1]
  ELSE strs[1] \o sep \o join(Tail(strs), sep)

\* The callback of sections.map
sectionString(section) ==
  LET startPosition == IF "start" \in DOMAIN section
                       THEN IntStr(section.start) \o <<"%">> ELSE <<>>
      endPosition == IF "end" \in DOMAIN section
                     THEN IntStr(section.end) \o <<"%">> ELSE <<>>
      positionStr == IF startPosition # <<>> \/ endPosition # <<>>
                     THEN trim(startPosition \o <<" ">> \o endPosition)
                     ELSE <<>>
  IN  trim(toString(section.color) \o <<" ">> \o positionStr)

gradientToString(g) ==
  LET typeStr == IF g.repeating
                 THEN <<"r", "e", "p", "e", "a", "t", "i", "n", "g", "-">>
                        \o g.type
                 ELSE g.type
      angleStr == IntStr(g.angle) \o <<"d", "e", "g">>
      sectionsString ==
        join([k \in 1..Len(g.sections) |-> sectionString(g.sections[k])],
             <<",", " ">>)
      open == <<"-", "g", "r", "a", "d", "i", "e", "n", "t", "(">>
  IN  IF g.type = Linear
      THEN typeStr \o open \o angleStr \o <<",", " ">> \o sectionsString
             \o <<")">>
      ELSE typeStr \o open \o sectionsString \o <<")">>

\* The sections of the readme's examples
LinearSections ==
  << [color |-> createHSLA([h |-> 0, s |-> 100, l |-> 50, a |-> 100]),
      start |-> 0],
     [color |-> createHSLA([h |-> 60, s |-> 100, l |-> 50, a |-> 100]),
      end |-> 100] >>

RadialSections ==
  << [color |-> createHSLA([h |-> 120, s |-> 100, l |-> 50, a |-> 80]),
      start |-> 10],
     [color |-> createHSLA([h |-> 240, s |-> 100, l |-> 50, a |-> 80]),
      end |-> 20] >>

GradientCreateArgs ==
  { NoArgs,
    [type |-> Linear, angle |-> 45, sections |-> LinearSections],
    [type |-> Radial, repeating |-> TRUE, sections |-> RadialSections],
    [type |-> Conic, angle |-> -90] }

GradientSetArgs ==
  { [angle |-> 90, repeating |-> TRUE],
    [sections |->
       << [color |-> createHSLA([h |-> 300, s |-> 75, l |-> 50, a |-> 80])],
          [color |-> createHSLA(NoArgs), start |-> 25, end |-> 75] >>] }

GradientAdjustArgs ==
  { [angle |-> 180],
    [type |-> Linear, repeating |-> FALSE],
    [type |-> Radial, sections |-> RadialSections] }

\* createGradient(args): a new gradient.
ConstructGradient(args) ==
  /\ Len(heap) < MaxObjs
  /\ heap' = Append(heap, createGradient(args))
  /\ ret' = [op |-> "createGradient", self |-> 0, arg |-> args,
             out |-> Len(heap) + 1]

\* heap[i].set(newValues)
SetGradient(i, newValues) ==
  /\ Len(heap) < MaxObjs
  /\ heap' = Append(heap, gradientSet(heap[i], newValues))
  /\ ret' = [op |-> "set", self |-> i, arg |-> newValues, out |-> Len(heap) + 1]

\* heap[i].adjust(adjustments)
AdjustGradient(i, adjustments) ==
  /\ Len(heap) < MaxObjs
  /\ heap' = Append(heap, gradientAdjust(heap[i], adjustments))
  /\ ret' = [op |-> "adjust", self |-> i, arg |-> adjustments,
             out |-> Len(heap) + 1]

\* heap[i].toString()
StringifyGradient(i) ==
  /\ heap' = heap
  /\ ret' = [op |-> "toString", self |-> i, arg |-> NoArgs,
             out |-> gradientToString(heap[i])]

\* The heap holds gradients only.
NextGradient ==
  \/ \E args \in GradientCreateArgs : ConstructGradient(args)
  \/ \E i \in 1..Len(heap), newValues \in GradientSetArgs :
       SetGradient(i, newValues)
  \/ \E i \in 1..Len(heap), adjustments \in GradientAdjustArgs :
       AdjustGradient(i, adjustments)
  \/ \E i \in 1..Len(heap) : StringifyGradient(i)

SpecGradient == Init /\ [][NextGradient]_vars

(***************************************************************************)
(* Properties                                                              *)
(***************************************************************************)

Channels == {"h", "s", "l", "a"}

Clamp(v, lo, hi) == IF v < lo THEN lo ELSE IF v > hi THEN hi ELSE v

\* The last call's receiver and the instance it returned.
Self == heap[ret.self]

Result == heap[ret.out]

Creators == {"set", "adjust", "shift"}

Readers == {"toRgb", "toString", "value"}

\* 255000 * Y for the triple rgb, Y = 0.299 R/255 + 0.587 G/255 + 0.114 B/255:
\* Y < 0.5 is Y1000(rgb) < 127500.
Y1000(rgb) == 299 * rgb[1] + 587 * rgb[2] + 114 * rgb[3]

\* C1: every colour value created by createHSLA, set, adjust or shift has
\* 0 <= h < 360, 0 <= s <= 100, 0 <= l <= 100 and 0 <= a <= 1.
C1_ChannelRanges ==
  \A i \in 1..Len(heap) :
    /\ 0 <= heap[i].h /\ heap[i].h < 360
    /\ 0 <= heap[i].s /\ heap[i].s <= 100
    /\ 0 <= heap[i].l /\ heap[i].l <= 100
    /\ 0 <= heap[i].a /\ heap[i].a <= AlphaScale

\* C2: no call changes an existing instance; set, adjust and shift return a
\* new instance, distinct from the receiver; toRgb, toString and the value
\* getter leave every instance as it was.
C2_InstancesNeverChange ==
  [][ /\ \A i \in 1..Len(heap) : Len(heap') >= i /\ heap'[i] = heap[i]
      /\ ret'.op \in Creators =>
           /\ Len(heap') = Len(heap) + 1
           /\ ret'.out = Len(heap')
           /\ ret'.out # ret'.self
      /\ ret'.op \in Readers => heap' = heap ]_vars

\* C2's case: shift on the first instance, after another instance was made,
\* returned a third instance with other channel values.
C2_Witness ==
  /\ ret.op = "shift" /\ ret.self = 1 /\ ret.out = 3
  /\ heap[3] # heap[1]

\* C3: adjust on a receiver with a hue in [0, 360) returns hue
\* (h + dh) modulo 360 and s, l, a plus their delta clamped; a channel with
\* no delta keeps its value; the documented example renders
\* "hsla(60, 50%, 60%, 1)".
C3_AdjustAddsDeltas ==
  (ret.op = "adjust" /\ 0 <= Self.h) =>
    LET d == ret.arg
    IN  /\ Result.h = (Self.h + Get(d, "h", 0)) % 360
        /\ Result.s = Clamp(Self.s + Get(d, "s", 0), 0, 100)
        /\ Result.l = Clamp(Self.l + Get(d, "l", 0), 0, 100)
        /\ Result.a = Clamp(Self.a + Get(d, "a", 0), 0, AlphaScale)
        /\ \A k \in Channels \ DOMAIN d : Result[k] = Self[k]
        /\ (Self = [h |-> 60, s |-> 90, l |-> 50, a |-> 100]
              /\ d = [s |-> -40, l |-> 10])
           => toString(Result) =
                <<"h", "s", "l", "a", "(", "6", "0", ",", " ", "5", "0", "%",
                  ",", " ", "6", "0", "%", ",", " ", "1", ")">>

\* C4: set replaces every named channel (a 0 included) by its new value
\* normalized (hue into [0, 360)) or clamped, and keeps every other channel.
C4_SetReplacesNamed ==
  ret.op = "set" =>
    LET nv == ret.arg
    IN  /\ "h" \in DOMAIN nv => Result.h = nv.h % 360
        /\ "s" \in DOMAIN nv => Result.s = Clamp(nv.s, 0, 100)
        /\ "l" \in DOMAIN nv => Result.l = Clamp(nv.l, 0, 100)
        /\ "a" \in DOMAIN nv => Result.a = Clamp(nv.a, 0, AlphaScale)
        /\ \A k \in Channels \ DOMAIN nv : Result[k] = Self[k]

ShiftExample ==
  /\ ret.op = "shift" /\ ret.arg = 60
  /\ Self = [h |-> 200, s |-> 100, l |-> 50, a |-> 100]

C7_ShiftMovesHue ==
  ret.op = "shift" =>
    /\ Result.h = (Self.h + ret.arg) % 360
    /\ Result.s = Self.s /\ Result.l = Self.l /\ Result.a = Self.a
    /\ ShiftExample =>
         toString(Result) =
           <<"h", "s", "l", "a", "(", "2", "6", "0", ",", " ", "1", "0", "0",
             "%", ",", " ", "5", "0", "%", ",", " ", "1", ")">>

\* C8: toRgb of every colour value that can be constructed is a triple of
\* integers in 0..255.
C8_RgbInRange ==
  ret.op = "toRgb" => \A c \in 1..3 : ret.out[c] \in 0..255

\* toRgb was called on {h:300, s:75, l:50, a:0.8}.
RgbExample ==
  /\ ret.op = "toRgb"
  /\ Self = [h |-> 300, s |-> 75, l |-> 50, a |-> 80]

C10_Achromatic ==
  (ret.op = "toRgb" /\ Self.s = 0) =>
    LET grey == (2 * 255 * Self.l + 100) \div 200
    IN  ret.out = <<grey, grey, grey>>

\* C10's case: toRgb of a grey with a non-zero hue whose l * 2.55 lies
\* halfway between two integers.
C10_Witness ==
  /\ ret.op = "toRgb" /\ Self.s = 0 /\ Self.h # 0
  /\ (2 * 255 * Self.l) % 200 = 100

\* Whether the whole of str is hsla(<int>, <int>%, <int>%, <decimal-or-int>),
\* with optional white space after the commas and a number in every field.
WholeForm(str) ==
  LET m == matchAt(str, 1)
  IN  m.ok /\ m.last = Len(str) /\ m.groups[4] # <<>>

\* C11: parsing what toString returned for an instance with a numeric alpha
\* gives an instance, and that instance has the same four channels.
C11_RoundTrip ==
  ret.op = "fromStringHSLA" =>
    \A i \in 1..Len(heap) :
      (heap[i].a # NaN /\ ret.arg = toString(heap[i])) =>
        (ret.out # 0 /\ value(Result) = value(heap[i]))

\* C12: fromStringHSLA returns an instance exactly for the strings that are,
\* as a whole, of the form hsla(<int>, <int>%, <int>%, <decimal-or-int>), and
\* null for every other string.
C12_WholeStringOnly ==
  ret.op = "fromStringHSLA" => (ret.out # 0 <=> WholeForm(ret.arg))

\* C13: an instance returned by fromStringHSLA has its hue in [0, 360), its
\* saturation and lightness in [0, 100] and a number in [0, 1] as its alpha.
C13_ParsedNormalized ==
  (ret.op = "fromStringHSLA" /\ ret.out # 0) =>
    /\ Result.h \in 0..(HueScale - 1)
    /\ Result.s \in 0..100
    /\ Result.l \in 0..100
    /\ Result.a # NaN
    /\ Result.a \in 0..AlphaScale

\* C14: hue deltas compose.  When x.adjust(d1) is followed by an adjust(d2) of
\* the instance it returned, the hue of the second result and the hue of
\* x.adjust({h: d1 + d2}) differ by a multiple of 360 (an absent h is delta 0).
C14_HueDeltasCompose ==
  [][ (ret.op = "adjust" /\ ret'.op = "adjust" /\ ret'.self = ret.out) =>
        LET d1 == Get(ret.arg, "h", 0)
            d2 == Get(ret'.arg, "h", 0)
            once == adjust(heap[ret.self], [h |-> d1 + d2])
        IN  (heap'[ret'.out].h - once.h) % HueScale = 0 ]_vars

\* createHSLA({h: 60, ...}).adjust({h: -90}).adjust({h: 400, ...}): 60, -30, 10.
C14_Witness ==
  /\ ret.op = "adjust" /\ ret.self = 2 /\ ret.out = 3
  /\ Get(ret.arg, "h", 0) = 400
  /\ heap[1].h = 60 /\ heap[2].h = -30 /\ heap[3].h = 10

\* C15: toString returns exactly "hsla(<h>, <s>%, <l>%, <a>)": read back field
\* by field, the string has the literal parts in their places and the decimal
\* numerals of the receiver's four channels between them ("NaN" for NaN); the
\* instance {h: 120, s: 100, l: 50, a: 0.5} gives "hsla(120, 100%, 50%, 0.5)".
C15_ToStringFormat ==
  ret.op = "toString" =>
    LET str == ret.out
        IntVal(f) == IF At(f, 1) = "-" THEN 0 - DigitsVal(Tail(f))
                     ELSE DigitsVal(f)
        h1 == Skip(str, 7, Digits)
        s1 == Skip(str, h1 + 2, Digits)
        l1 == Skip(str, s1 + 3, Digits)
        alpha == SubSeq(str, l1 + 3, Len(str) - 1)
    IN  /\ Lit(str, 1, <<"h", "s", "l", "a", "(">>)
        /\ At(str, 6) \in Digits \cup {"-"}
        /\ h1 > 6 /\ At(str, h1 - 1) \in Digits /\ Lit(str, h1, <<",", " ">>)
        /\ s1 > h1 + 2 /\ Lit(str, s1, <<"%", ",", " ">>)
        /\ l1 > s1 + 3 /\ Lit(str, l1, <<"%", ",", " ">>)
        /\ At(str, Len(str)) = ")"
        /\ IntVal(SubSeq(str, 6, h1 - 1)) = Self.h
        /\ DigitsVal(SubSeq(str, h1 + 2, s1 - 1)) = Self.s
        /\ DigitsVal(SubSeq(str, s1 + 3, l1 - 1)) = Self.l
        /\ IF Self.a = NaN THEN alpha = <<"N", "a", "N">>
           ELSE /\ \A k \in 1..Len(alpha) : alpha[k] \in Digits \cup {"."}
                /\ parseFloat(alpha) = Self.a
        /\ value(Self) = [h |-> 120, s |-> 100, l |-> 50, a |-> 50] =>
             str =
               <<"h", "s", "l", "a", "(", "1", "2", "0", ",", " ", "1",
                 "0", "0", "%", ",", " ", "5", "0", "%", ",", " ", "0",
                 ".", "5", ")">>

\* {h: 120, s: 100, l: 50, a: 0.5} has been rendered.
C15_Witness ==
  /\ ret.op = "toString"
  /\ value(Self) = [h |-> 120, s |-> 100, l |-> 50, a |-> 50]
  /\ Len(ret.out) = 25

\* C16: adjusting a border that has the default opaque black with {color: c}
\* returns a border whose colour renders as c renders.
C16_AdjustColour ==
  (ret.op = "adjust" /\ "color" \in DOMAIN ret.arg /\ Self.color = Black) =>
    toString(Result.color) = toString(ret.arg.color)

\* C17: a border that has the default colour renders as "<width>px <style>",
\* without a colour.
C17_NoColourRendered ==
  (ret.op = "toString" /\ Self.color = Black) =>
    ret.out = IntStr(Self.width) \o <<"p", "x", " ">> \o Self.style

\* C18: a shadow renders as "[inset ]<x>px <y>px <blur>px [<spread>px ]<color>",
\* the spread only when one was supplied (a spread other than 0).
C18_ShadowFormat ==
  ret.op = "toString" =>
    ret.out =
      (IF Self.inset THEN <<"i", "n", "s", "e", "t", " ">> ELSE <<>>)
        \o IntStr(Self.x) \o <<"p", "x", " ">>
        \o IntStr(Self.y) \o <<"p", "x", " ">>
        \o IntStr(Self.blur) \o <<"p", "x", " ">>
        \o (IF Self.spread # 0 THEN IntStr(Self.spread) \o <<"p", "x", " ">>
            ELSE <<>>)
        \o toString(Self.color)

\* C19: createShadow gives every property that its argument leaves out the
\* default: x, y, blur and spread 0, inset false, and the colour
\* hsla(0, 0%, 0%, 0.5).
C19_ShadowDefaults ==
  ret.op = "createShadow" =>
    /\ \A k \in {"x", "y", "blur", "spread"} \ DOMAIN ret.arg : Result[k] = 0
    /\ "inset" \notin DOMAIN ret.arg => Result.inset = FALSE
    /\ "color" \notin DOMAIN ret.arg =>
         value(Result.color) = [h |-> 0, s |-> 0, l |-> 0, a |-> 50]

\* "<color> <start>% <end>%" with the absent positions left out.
SectionText(section) ==
  toString(section.color)
    \o (IF "start" \in DOMAIN section
        THEN <<" ">> \o IntStr(section.start) \o <<"%">> ELSE <<>>)
    \o (IF "end" \in DOMAIN section
        THEN <<" ">> \o IntStr(section.end) \o <<"%">> ELSE <<>>)

\* The texts of the sections from the k-th on, with ", " between them.
RECURSIVE SectionsText(_, _)
SectionsText(sections, k) ==
  IF k > Len(sections) THEN <<>>
  ELSE SectionText(sections[k])
         \o (IF k < Len(sections) THEN <<",", " ">> ELSE <<>>)
         \o SectionsText(sections, k + 1)

\* C20: a linear gradient renders as
\* "[repeating-]linear-gradient(<angle>deg, <sections>)", and the repeating
\* radial gradient with sections at 10% and 20% renders as
\* "repeating-radial-gradient(circle at center, hsla(120, 100%, 50%, 0.8) 10%,
\* hsla(240, 100%, 50%, 0.8) 20%)".
C20_GradientFormat ==
  ret.op = "toString" =>
    /\ Self.type = Linear =>
         ret.out =
           (IF Self.repeating
            THEN <<"r", "e", "p", "e", "a", "t", "i", "n", "g", "-">>
            ELSE <<>>)
             \o <<"l", "i", "n", "e", "a", "r", "-",
                  "g", "r", "a", "d", "i", "e", "n", "t", "(">>
             \o IntStr(Self.angle) \o <<"d", "e", "g", ",", " ">>
             \o SectionsText(Self.sections, 1) \o <<")">>
    /\ (Self.type = Radial /\ Self.repeating /\ Self.sections = RadialSections) =>
         ret.out =
           <<"r", "e", "p", "e", "a", "t", "i", "n", "g", "-", "r", "a",
             "d", "i", "a", "l", "-", "g", "r", "a", "d", "i", "e", "n",
             "t", "(", "c", "i", "r", "c", "l", "e", " ", "a", "t", " ",
             "c", "e", "n", "t", "e", "r", ",", " ", "h", "s", "l", "a",
             "(", "1", "2", "0", ",", " ", "1", "0", "0", "%", ",", " ",
             "5", "0", "%", ",", " ", "0", ".", "8", ")", " ", "1", "0",
             "%", ",", " ", "h", "s", "l", "a", "(", "2", "4", "0", ",",
             " ", "1", "0", "0", "%", ",", " ", "5", "0", "%", ",", " ",
             "0", ".", "8", ")", " ", "2", "0", "%", ")">>

Q(x) ==
  IF 2 * x.l < PctScale THEN x.l * (PctScale + x.s)
  ELSE PctScale * x.l + PctScale * x.s - x.l * x.s

P(x) == 2 * PctScale * x.l - Q(x)

\* The phases toRgb passes to hue2rgb for red, green and blue, in 1/360.
Phases(x) == <<x.h + 120, x.h, x.h - 120>>

\* C22: toRgb of a colour with saturation.  With a hue in [0, 360) each of the
\* three phases is in [0, 1] after the correction, each channel value lies
\* between p and q, and the triple returned has integers in 0..255.  With a
\* stored hue in (-360, -240) the blue phase h/360 - 1/3 is below -1 and is
\* still negative after the correction.
C22_PhaseCorrection ==
  (ret.op = "toRgb" /\ Self.s > 0) =>
    LET p == P(Self)
        q == Q(Self)
    IN  /\ Self.h \in 0..(HueScale - 1) =>
             \A c \in 1..3 :
               /\ correct(Phases(Self)[c]) \in 0..HueScale
               /\ 60 * p <= hue2rgb(p, q, Phases(Self)[c])
               /\ hue2rgb(p, q, Phases(Self)[c]) <= 60 * q
               /\ ret.out[c] \in 0..RgbMax
        /\ Self.h \in (1 - HueScale)..(0 - 241) =>
             correct(Phases(Self)[3]) < 0

\* toRgb on a colour with saturation and a hue in [0, 360) whose red phase
\* was above 1 before the correction.
C22_Witness ==
  /\ ret.op = "toRgb"
  /\ Self.s > 0
  /\ Self.h \in 0..(HueScale - 1)
  /\ Phases(Self)[1] > HueScale
  /\ correct(Phases(Self)[1]) \in 0..HueScale

====
